---------------------------- MODULE Spec2Model ----------------------------
(***************************************************************************)
(* Client-side real-time session protocol of the chat dashboard:           *)
(*   - WebSocketService (ui/src/lib/websocket.ts): one service instance,   *)
(*     its sockets, its reconnect timer and its publish/subscribe events;  *)
(*   - Dashboard (ui/src/pages/Dashboard.tsx): the component state that    *)
(*     the service's events and the user's actions drive, the persisted    *)
(*     conversation identifier and the history fetches.                    *)
(* The runtime is single-threaded: every action below is one event-loop    *)
(* task (a handler run to completion, with the microtasks it queues).      *)
(***************************************************************************)
EXTENDS Integers, Sequences, FiniteSets, TLC

(***************************************************************************)
(* Bounds of the model and program constants.                              *)
(***************************************************************************)
MaxSockets == 2
MaxMsgs == 2
MaxFetches == 1
MaxAcks == 1

maxReconnectAttempts == 5
BaseDelay == 1000
CapDelay == 30000

Null == "null"
ConvIds == {"c1", "c2"}
AuthCodes == {1008, 1011, 4001, 4003}
CloseCodes == {1000, 1001, 1006} \cup AuthCodes
Statuses == {"disconnected", "connecting", "connected", "error"}

VARIABLES
  wsService,     \* the WebSocketService singleton (fields of the class)
  sockets,       \* the browser's sockets created by the service
  timers,        \* number of pending setTimeout callbacks of scheduleReconnect
  dash,          \* the Dashboard component's state (useState cells)
  localStorage,  \* the value stored under 'current_conversation_id'
  fetches,       \* history requests in flight (messageAPI.getMessages)
  acks,          \* switch_conversation frames the remote side has yet to answer
  auth,          \* the auth slice of the store: the user's current credential
  obs            \* observations of the last operations (history variables)

vars == <<wsService, sockets, timers, dash, localStorage, fetches, acks, auth,
          obs>>


(***************************************************************************)
(* Values.                                                                 *)
(***************************************************************************)
Min(a, b) == IF a < b THEN a ELSE b

NoSide == [events |-> "none", agents |-> "none", guardrails |-> "none",
           context |-> "none"]

\* The component state of a render that has not run any effect yet
\* (the useState initial values, Dashboard.tsx 65-79).
DashInit ==
  [mounted |-> FALSE,
   messages |-> <<>>,
   sideChannel |-> NoSide,
   currentAgent |-> "",
   conversationId |-> Null,
   closureConversationId |-> Null,
   isRestoringSession |-> FALSE,
   isLoading |-> FALSE,
   wsStatus |-> "disconnected",
   streamingResponse |-> ""]

\* A socket slot: rs is the socket's readyState, with FAILED for a socket
\* whose error event has fired and whose close event is still queued;
\* prom is the owner of the still pending promise connect() returned for it.
FreeSocket == [rs |-> "CLOSED", prom |-> "none"]

NoFrame == [type |-> "none", content |-> "", conversation_id |-> Null]

NoClose == [code |-> 0, authEmits |-> 0, delivered |-> 0,
            scheduled |-> FALSE, cancelled |-> FALSE]

ObsInit ==
  [lastClose |-> NoClose,
   delays |-> <<>>,
   urlConversationId |-> Null,
   urlToken |-> Null,
   sent |-> NoFrame,
   exch |-> "none",
   base |-> <<>>,
   sinceNew |-> FALSE,
   scn |-> 0]

\* The state the handlers read and write, passed through them in program
\* order.
\* obs.sent and obs.lastClose describe the step being taken: the frame it
\* sends and the close event it handles, if any.
World ==
  [svc |-> wsService, socks |-> sockets, timers |-> timers, dash |-> dash,
   ls |-> localStorage, acks |-> acks, auth |-> auth,
   obs |-> [obs EXCEPT !.sent = NoFrame, !.lastClose = NoClose]]

(***************************************************************************)
(* Dashboard's subscribers of the service's events.                        *)
(***************************************************************************)
handleStatus(w, status) ==
  [w EXCEPT !.dash.wsStatus = status]

handleConnected(w) ==
  [w EXCEPT !.dash.wsStatus = "connected"]

handleError(w) ==
  [w EXCEPT !.dash.wsStatus = "error",
            !.dash.isLoading = FALSE,
            !.dash.streamingResponse = ""]

handleAuthError(w) ==
  [w EXCEPT !.dash.wsStatus = "error",
            !.dash.isLoading = FALSE,
            !.dash.streamingResponse = ""]

\* The .catch of the promise the mount effect's connect() returned.
connectCatch(w) ==
  [w EXCEPT !.dash.wsStatus = "error"]

(***************************************************************************)
(* WebSocketService.                                                       *)
(***************************************************************************)
\* emit of the events that carry no payload the model reads.
emit(w, event) ==
  IF ~w.dash.mounted THEN w
  ELSE IF event = "auth_error" THEN handleAuthError(w)
  ELSE IF event = "error" THEN handleError(w)
  ELSE IF event = "connected" THEN handleConnected(w)
  ELSE w

setStatus(w, status) ==
  LET w1 == [w EXCEPT !.svc.status = status]
  IN IF w1.dash.mounted THEN handleStatus(w1, status) ELSE w1

\* A variant of the delay that counts the attempts from zero.
ReconnectDelayFromZero(attempts) == Min(BaseDelay * 2^(attempts - 1), CapDelay)

ReconnectDelay(attempts) == Min(BaseDelay * 2^attempts, CapDelay)

\* A variant of scheduleReconnect that leaves an outstanding timer running.
scheduleReconnectKeepingTimer(w) ==
  LET attempts == w.svc.reconnectAttempts + 1
  IN [w EXCEPT !.svc.reconnectAttempts = attempts,
               !.svc.reconnectTimer = "live",
               !.timers = @ + 1,
               !.obs.delays = Append(@, ReconnectDelay(attempts))]

scheduleReconnect(w) ==
  LET cleared == IF w.svc.reconnectTimer = "live" THEN w.timers - 1 ELSE w.timers
      attempts == w.svc.reconnectAttempts + 1
      delay == ReconnectDelay(attempts)
  IN [w EXCEPT !.svc.reconnectAttempts = attempts,
               !.svc.reconnectTimer = "live",
               !.timers = cleared + 1,
               !.obs.delays = Append(@, delay)]

\* settle the promise of socket i: reject runs the owner's catch.
resolve(w, i) == [w EXCEPT !.socks[i].prom = "none"]

reject(w, i) ==
  LET w1 == [w EXCEPT !.socks[i].prom = "none"]
  IN IF w.socks[i].prom = "dash" THEN connectCatch(w1) ELSE w1

IsOpen(w) == w.svc.ws # 0 /\ w.socks[w.svc.ws].rs = "OPEN"

FreeSlots(socks) == {i \in 1..MaxSockets : socks[i].rs = "CLOSED"}

connect(w, owner) ==
  IF IsOpen(w) THEN w
  ELSE
    LET w1 == setStatus(w, "connecting")
        i == CHOOSE k \in FreeSlots(w.socks) : \A j \in FreeSlots(w.socks) : k <= j
    IN [w1 EXCEPT !.obs.urlConversationId = w.svc.conversationId,
                  !.obs.urlToken = w.svc.token,
                  !.socks[i] = [rs |-> "CONNECTING", prom |-> owner],
                  !.svc.ws = i]

CanConnect(w) == IsOpen(w) \/ FreeSlots(w.socks) # {}

onopen(w, i) ==
  LET w1 == setStatus([w EXCEPT !.socks[i].rs = "OPEN"], "connected")
      w2 == [w1 EXCEPT !.svc.reconnectAttempts = 0, !.obs.delays = <<>>]
  IN resolve(w2, i)

\* A variant of the test that knows the application's own codes only.
IsAuthFailureAppCodes(code) == code = 4001 \/ code = 4003

IsAuthFailure(code) == code = 1008 \/ code = 1011 \/ code = 4001 \/ code = 4003

\* A variant of the close handler that retries after a clean close too.
oncloseRetryingCleanClose(w, i, code) ==
  LET w0 == [w EXCEPT !.socks[i].rs = "CLOSED",
                      !.obs.lastClose = [code |-> code, authEmits |-> 0,
                                         delivered |-> 0, scheduled |-> FALSE,
                                         cancelled |-> FALSE]]
      w2 == setStatus(w0, "disconnected")
  IN IF IsAuthFailure(code)
       THEN [reject(emit(w2, "auth_error"), i) EXCEPT !.socks[i].prom = "none"]
     ELSE IF w2.svc.reconnectAttempts < maxReconnectAttempts
       THEN [scheduleReconnect(w2) EXCEPT !.socks[i].prom = "none"]
     ELSE [w2 EXCEPT !.socks[i].prom = "none"]

onclose(w, i, code) ==
  LET w0 == [w EXCEPT !.socks[i].rs = "CLOSED",
                      !.obs.lastClose = [code |-> code, authEmits |-> 0,
                                         delivered |-> 0, scheduled |-> FALSE,
                                         cancelled |-> FALSE]]
      emitAuth(x) ==
        [emit(x, "auth_error") EXCEPT
           !.obs.lastClose.authEmits = @ + 1,
           !.obs.lastClose.delivered = IF x.dash.mounted THEN @ + 1 ELSE @]
      w1 == IF code = 4001 \/ code = 4003 THEN emitAuth(w0) ELSE w0
      w2 == setStatus(w1, "disconnected")
  IN IF IsAuthFailure(code)
       THEN [reject(emitAuth(w2), i) EXCEPT !.socks[i].prom = "none"]
     ELSE IF code # 1000 /\ w2.svc.reconnectAttempts < maxReconnectAttempts
       THEN [scheduleReconnect(w2) EXCEPT !.socks[i].prom = "none"]
     ELSE [w2 EXCEPT !.socks[i].prom = "none"]

onerror(w, i) ==
  reject(setStatus([w EXCEPT !.socks[i].rs = "FAILED"], "error"), i)

\* disconnect(): clearTimeout, ws.close(1000), this.ws = null.  close() on an
\* open socket starts the closing handshake (CLOSING); on a socket still
\* connecting it fails the connection (ABORTED: its error event and its
\* close event with code 1006 follow); on any other socket it does nothing.
\* The socket keeps its handlers.
disconnect(w) ==
  LET w1 == [w EXCEPT !.timers = IF w.svc.reconnectTimer = "live"
                                   THEN @ - 1 ELSE @,
                      !.svc.reconnectTimer = "null"]
      i == w1.svc.ws
      w2 == IF i = 0 THEN w1
            ELSE [w1 EXCEPT !.socks[i].rs =
                              CASE @ = "OPEN" -> "CLOSING"
                                [] @ = "CONNECTING" -> "ABORTED"
                                [] OTHER -> @,
                            !.svc.ws = 0]
  IN setStatus(w2, "disconnected")


(***************************************************************************)
(* createWebSocketService / getWebSocketService: the module-level          *)
(* singleton.  One user is modelled, so an existing service is reused.     *)
(***************************************************************************)
NoService ==
  [created |-> FALSE, status |-> "disconnected", reconnectAttempts |-> 0,
   reconnectTimer |-> "null", ws |-> 0, conversationId |-> Null,
   token |-> Null]

createWebSocketService(w, token) ==
  IF w.svc.created THEN w
  ELSE [w EXCEPT !.svc = [NoService EXCEPT !.created = TRUE, !.token = token]]

setConversationId(w, conversationId) ==
  [w EXCEPT !.svc.conversationId = conversationId]

(***************************************************************************)
(* ConversationPersistence.                                                *)
(***************************************************************************)
saveCurrentConversationId(w, conversationId) ==
  [w EXCEPT !.ls = conversationId]

restoreCurrentConversationId(w) == w.ls

(***************************************************************************)
(* WebSocketService: outbound frames.                                      *)
(***************************************************************************)
\* send drops the frame, with a warning, unless the current socket is open.
send(w, frame) ==
  IF ~IsOpen(w) THEN w
  ELSE [w EXCEPT !.obs.sent = frame]

sendChatMessage(w, content) ==
  send(w, [type |-> "chat", content |-> content,
           conversation_id |-> w.svc.conversationId])

switchConversation(w, conversationId) ==
  LET w1 == send(w, [type |-> "switch_conversation", content |-> conversationId,
                     conversation_id |-> Null])
  IN [w1 EXCEPT !.svc.conversationId = conversationId,
                !.acks = IF IsOpen(w) /\ Cardinality(@) < MaxAcks
                           THEN @ \cup {conversationId} ELSE @]

(***************************************************************************)
(* Messages.                                                               *)
(***************************************************************************)
\* new Date() of a message created while the page is live: later than every
\* creation time a stored history carries.
MaxHistoryTime == 2
Now == MaxHistoryTime + 1

Message(content, type, agent) ==
  [content |-> content, type |-> type, agent |-> agent, timestamp |-> Now]

\* `currentAgent || 'System'`
OrElse(a, b) == IF a = "" THEN b ELSE a

\* The literal prefix of the error message's text (282, 373), in ASCII.
ErrorPrefix == "[system error] "

errorMessage(r) ==
  Message(ErrorPrefix \o r.error_message, "ai", OrElse(r.current_agent, "System"))

\* response.messages.map(...) of handleChatResponse (387-394)
RECURSIVE mapResponseMessages(_)
mapResponseMessages(ms) ==
  IF ms = <<>> THEN <<>>
  ELSE <<Message(Head(ms).content,
                 IF Head(ms).agent = "user" THEN "user" ELSE "ai",
                 Head(ms).agent)>> \o mapResponseMessages(Tail(ms))

RECURSIVE filterAi(_)
filterAi(ms) ==
  IF ms = <<>> THEN <<>>
  ELSE (IF Head(ms).type = "ai" THEN <<Head(ms)>> ELSE <<>>) \o filterAi(Tail(ms))

\* A variant of the updater that always takes the response's list.
mergeMessagesReplacing(prev, newMessages) == newMessages

\* The updater handed to setMessages (399-413).
mergeMessages(prev, newMessages) ==
  LET aiMessages == filterAi(newMessages)
  IN IF Len(aiMessages) > 0 /\ Len(prev) > 0 /\ prev[Len(prev)].type = "user"
       THEN prev \o aiMessages
       ELSE newMessages

\* response.data.map(...) of the history loaders (118-124, 552-558)
RECURSIVE mapHistory(_)
mapHistory(data) ==
  IF data = <<>> THEN <<>>
  ELSE <<[content |-> Head(data).content,
          type |-> IF Head(data).sender_type = "human" THEN "user" ELSE "ai",
          agent |-> IF Head(data).sender_type = "human" THEN "user"
                    ELSE OrElse(Head(data).sender_id, "ai"),
          timestamp |-> Head(data).created_at]>> \o mapHistory(Tail(data))

\* Array.prototype.sort by ascending timestamp (stable insertion).
RECURSIVE insertByTime(_, _)
insertByTime(m, sorted) ==
  IF sorted = <<>> THEN <<m>>
  ELSE IF m.timestamp < Head(sorted).timestamp THEN <<m>> \o sorted
  ELSE <<Head(sorted)>> \o insertByTime(m, Tail(sorted))

RECURSIVE sortByTime(_)
sortByTime(ms) ==
  IF ms = <<>> THEN <<>>
  ELSE insertByTime(ms[Len(ms)], sortByTime(SubSeq(ms, 1, Len(ms) - 1)))

(***************************************************************************)
(* Dashboard: the handlers of the response frames.                         *)
(***************************************************************************)
\* `if (x.conversation_id && !conversationId)`: conversationId is the value
\* the effect's render had, kept by the handler's closure.
ShouldAdopt(w, r) ==
  r.conversation_id # Null /\ w.dash.closureConversationId = Null

adoptConversationId(w, r) ==
  IF ShouldAdopt(w, r)
    THEN LET w1 == [w EXCEPT !.dash.conversationId = r.conversation_id]
             w2 == IF w1.svc.created
                     THEN setConversationId(w1, r.conversation_id)
                     ELSE w1
         IN saveCurrentConversationId(w2, r.conversation_id)
    ELSE w

applyCurrentAgent(w, r) ==
  IF r.current_agent # "" THEN [w EXCEPT !.dash.currentAgent = r.current_agent]
  ELSE w

\* events, agents, guardrails and context, each applied when the frame
\* carries it.
applySideChannel(w, r) ==
  [w EXCEPT
     !.dash.sideChannel.events = IF r.events # "none" THEN r.events ELSE @,
     !.dash.sideChannel.agents = IF r.agents # "none" THEN r.agents ELSE @,
     !.dash.sideChannel.guardrails =
        IF r.guardrails # "none" THEN r.guardrails ELSE @,
     !.dash.sideChannel.context = IF r.context # "none" THEN r.context ELSE @]

handleChatResponse(w, response) ==
  LET w1 == applyCurrentAgent(adoptConversationId(w, response), response)
  IN IF response.is_error
       THEN [w1 EXCEPT !.dash.messages = Append(@, errorMessage(response)),
                       !.dash.isLoading = FALSE,
                       !.dash.streamingResponse = ""]
     ELSE
       LET w2 == IF response.has_messages
                   THEN [w1 EXCEPT !.dash.messages =
                           mergeMessages(@, mapResponseMessages(response.messages))]
                   ELSE w1
       IN applySideChannel(w2, response)

IsTerminal(content) == content.type = "completion" \/ content.is_finished

\* A variant of the text update that appends the frame's text.
updateStreamingTextAppending(w, content) ==
  [w EXCEPT !.dash.streamingResponse = @ \o content.raw_response]

\* if (content.raw_response) setStreamingResponse(content.raw_response)
updateStreamingText(w, content) ==
  IF content.raw_response # ""
    THEN [w EXCEPT !.dash.streamingResponse = content.raw_response]
    ELSE w

handleStreamingResponse(w, content) ==
  IF ~content.is_object THEN w
  ELSE IF IsTerminal(content) THEN
    LET w1 == [w EXCEPT !.dash.streamingResponse = "",
                        !.dash.isLoading = FALSE]
        w2 == applyCurrentAgent(w1, content)
    IN IF content.has_final_response
         THEN handleChatResponse(w2, content.final_response)
         ELSE handleChatResponse(w2, content)
  ELSE IF content.is_error THEN
    [w EXCEPT !.dash.messages = Append(@, errorMessage(content)),
              !.dash.streamingResponse = "",
              !.dash.isLoading = FALSE]
  ELSE
    applySideChannel(
      applyCurrentAgent(
        adoptConversationId(updateStreamingText(w, content), content),
        content), content)

\* A variant of the acknowledgment's handler that does not persist.
handleConversationSwitchedUnsaved(w, content) ==
  IF content.conversation_id # Null
    THEN [w EXCEPT !.dash.conversationId = content.conversation_id]
    ELSE w

handleConversationSwitched(w, content) ==
  IF content.conversation_id # Null
    THEN saveCurrentConversationId(
           [w EXCEPT !.dash.conversationId = content.conversation_id],
           content.conversation_id)
    ELSE w

(***************************************************************************)
(* Dashboard: the user's operations.                                       *)
(***************************************************************************)
\* String.prototype.trim on the inputs the model draws.
trim(text) ==
  CASE text = " " -> ""
    [] text = " hello " -> "hello"
    [] text = "Hi " -> "Hi"
    [] OTHER -> text

handleSendMessage(w, content) ==
  IF trim(content) = "" \/ w.dash.isLoading THEN w
  ELSE
    LET w1 == [w EXCEPT !.dash.isLoading = TRUE,
                        !.dash.streamingResponse = "",
                        !.dash.messages =
                           Append(@, Message(trim(content), "user", "user"))]
    IN IF w1.svc.created THEN sendChatMessage(w1, trim(content))
       ELSE [w1 EXCEPT !.dash.isLoading = FALSE]

\* Chat.handleSend: the input's gate in front of onSendMessage.
handleSend(w, inputText) ==
  IF trim(inputText) = "" THEN w
  ELSE IF w.dash.wsStatus # "connected" THEN w
  ELSE handleSendMessage(w, inputText)

\* A variant of the 'new' branch that leaves the service's identifier alone.
selectNewConversationKeepingServiceId(w) ==
  saveCurrentConversationId(
    [w EXCEPT !.dash.conversationId = Null,
              !.dash.messages = <<>>,
              !.dash.sideChannel = NoSide,
              !.dash.currentAgent = "",
              !.dash.isLoading = FALSE,
              !.dash.streamingResponse = ""], Null)

\* handleSelectConversation('new')
selectNewConversation(w) ==
  LET w1 == [w EXCEPT !.dash.conversationId = Null,
                      !.dash.messages = <<>>,
                      !.dash.sideChannel = NoSide,
                      !.dash.currentAgent = "",
                      !.dash.isLoading = FALSE,
                      !.dash.streamingResponse = ""]
      w2 == IF w1.svc.created THEN setConversationId(w1, Null) ELSE w1
  IN saveCurrentConversationId(w2, Null)

\* handleSelectConversation(id), up to the history request.
selectConversation(w, selectedConversationId) ==
  LET w1 == saveCurrentConversationId(
              [w EXCEPT !.dash.conversationId = selectedConversationId],
              selectedConversationId)
  IN IF ~w1.svc.created THEN w1
     ELSE
       LET w2 == IF w1.svc.status = "connected"
                   THEN switchConversation(w1, selectedConversationId)
                   ELSE setConversationId(w1, selectedConversationId)
       IN [w2 EXCEPT !.dash.messages = <<>>, !.dash.isLoading = TRUE]

\* The continuation of loadConversationHistory after the response (116-147).
loadConversationHistoryDone(w, response) ==
  LET w1 == IF response.success
              THEN [w EXCEPT !.dash.messages = sortByTime(mapHistory(response.data))]
              ELSE [saveCurrentConversationId(w, Null) EXCEPT
                      !.dash.conversationId = Null]
  IN [w1 EXCEPT !.dash.isLoading = FALSE, !.dash.isRestoringSession = FALSE]

\* The continuation of handleSelectConversation after the response (550-575).
selectConversationDone(w, response) ==
  LET w1 == IF response.success
              THEN [w EXCEPT !.dash.messages = sortByTime(mapHistory(response.data))]
              ELSE w
  IN [w1 EXCEPT !.dash.isLoading = FALSE]

(***************************************************************************)
(* App (ui/src/App.tsx): the single-page component over the global         *)
(* service that main.tsx creates.  Its state cells have the names of the   *)
(* dashboard's; a message's id is "streaming" when it ends in '_streaming' *)
(* and "plain" otherwise.                                                  *)
(***************************************************************************)
MaxAppMsgs == 3
MaxAppEvents == 1

AppInit == [DashInit EXCEPT !.sideChannel.events = <<>>]

AppMessage(id, content, role, agent) ==
  [id |-> id, content |-> content, role |-> role, agent |-> agent]

\* responseData.messages.filter(...).map(...) (102-110): the entries with a
\* string content and a string agent, as assistant messages.
RECURSIVE App_newMessages(_)
App_newMessages(ms) ==
  IF ms = <<>> THEN <<>>
  ELSE (IF Head(ms).content # Null /\ Head(ms).agent # Null
          THEN <<AppMessage("plain", Head(ms).content, "assistant", Head(ms).agent)>>
          ELSE <<>>) \o App_newMessages(Tail(ms))

\* The messages a finished response commits: its valid final messages, or
\* its raw text when it carries no final message (101-130).
App_finalMessages(r) ==
  IF r.has_messages /\ r.messages # <<>> THEN App_newMessages(r.messages)
  ELSE IF r.raw_response # Null /\ r.raw_response # ""
    THEN <<AppMessage("plain", r.raw_response, "assistant", Null)>>
  ELSE <<>>

\* A variant of the filter that keeps every committed message.
App_filteredPrevKeepingAll(prev, newMessages) == prev

\* filteredPrev (116-119, 134-137): the committed messages without the
\* flushed ones whose trimmed text is the trimmed text of a new message.
RECURSIVE App_filteredPrev(_, _)
App_filteredPrev(prev, newMessages) ==
  IF prev = <<>> THEN <<>>
  ELSE (IF /\ Head(prev).id = "streaming"
           /\ \E k \in 1..Len(newMessages) :
                 trim(newMessages[k].content) = trim(Head(prev).content)
          THEN <<>> ELSE <<Head(prev)>>)
       \o App_filteredPrev(Tail(prev), newMessages)

\* App's handleStreamingResponse (43-148).  The effect has no dependency, so
\* the conversationId its closure reads is the initial null.
App_handleStreamingResponse(w, content) ==
  IF ~content.is_object THEN w
  ELSE
    LET r == IF content.has_final_response THEN content.final_response
             ELSE content
        w1 == IF r.conversation_id # Null
                THEN [w EXCEPT !.dash.conversationId = r.conversation_id]
                ELSE w
    IN IF r.is_finished THEN
         LET w2 == [w1 EXCEPT
                      !.dash.currentAgent =
                         IF r.current_agent # "" THEN r.current_agent ELSE @,
                      !.dash.sideChannel.context =
                         IF r.context # "none" THEN r.context ELSE @,
                      !.dash.sideChannel.events =
                         IF r.events # "none" THEN Append(@, r.events) ELSE @,
                      !.dash.sideChannel.agents =
                         IF r.agents # "none" THEN r.agents ELSE @,
                      !.dash.sideChannel.guardrails =
                         IF r.guardrails # "none" THEN r.guardrails ELSE @,
                      !.dash.streamingResponse = "",
                      !.dash.isLoading = FALSE]
             newMessages == App_finalMessages(r)
         IN IF newMessages # <<>>
              THEN [w2 EXCEPT !.dash.messages =
                                 App_filteredPrev(@, newMessages) \o newMessages]
              ELSE w2
       ELSE IF r.raw_response # Null
         THEN [w1 EXCEPT !.dash.streamingResponse = r.raw_response]
       ELSE w1

\* App's handleSendMessage (169-210).
App_handleSendMessage(w, content) ==
  LET text == w.dash.streamingResponse
      flushed == IF text # "" /\ trim(text) # ""
                   THEN <<AppMessage("streaming", text, "assistant", Null)>>
                   ELSE <<>>
      w1 == [w EXCEPT !.dash.messages =
                         (@ \o flushed) \o <<AppMessage("plain", content, "user", Null)>>,
                      !.dash.isLoading = TRUE,
                      !.dash.streamingResponse = ""]
  IN IF w1.svc.created /\ w1.svc.status = "connected"
       THEN sendChatMessage(w1, content)
       ELSE [w1 EXCEPT !.dash.isLoading = FALSE]

(***************************************************************************)
(* State transition: the variables take the values of world w2.            *)
(***************************************************************************)
Becomes(w2) ==
  /\ wsService' = w2.svc
  /\ sockets' = w2.socks
  /\ timers' = w2.timers
  /\ dash' = w2.dash
  /\ localStorage' = w2.ls
  /\ acks' = w2.acks
  /\ auth' = w2.auth
  /\ obs' = w2.obs

(***************************************************************************)
(* Browser events on the service's sockets and timer.                      *)
(***************************************************************************)
SocketOpen(i) ==
  /\ sockets[i].rs = "CONNECTING"
  /\ Becomes([onopen(World, i) EXCEPT !.obs.scn = 0])
  /\ UNCHANGED fetches

\* The close event of socket i: any code when the open socket is closed by
\* the remote side, 1006 after a failure, 1000 or 1006 at the end of a
\* closing handshake the local side started.
SocketClose(i, code) ==
  /\ \/ sockets[i].rs = "OPEN"
     \/ sockets[i].rs = "FAILED" /\ code = 1006
     \/ sockets[i].rs = "CLOSING" /\ code \in {1000, 1006}
  /\ LET w2 == onclose(World, i, code)
     IN Becomes([w2 EXCEPT !.obs.lastClose.scheduled =
                             \/ w2.timers # timers
                             \/ w2.svc.reconnectTimer # wsService.reconnectTimer
                             \/ w2.svc.reconnectAttempts # wsService.reconnectAttempts,
                           !.obs.lastClose.cancelled =
                             /\ wsService.reconnectTimer = "live"
                             /\ w2.svc.reconnectAttempts # wsService.reconnectAttempts,
                           !.obs.scn = 0])
  /\ UNCHANGED fetches

SocketError(i) ==
  /\ sockets[i].rs \in {"CONNECTING", "OPEN", "ABORTED"}
  /\ Becomes([onerror(World, i) EXCEPT !.obs.scn = 0])
  /\ UNCHANGED fetches

\* The setTimeout callback of scheduleReconnect: await this.connect().
TimerFire ==
  /\ timers > 0
  /\ CanConnect(World)
  /\ LET w1 == [World EXCEPT !.timers = @ - 1,
                             !.svc.reconnectTimer =
                               IF timers = 1 THEN "stale" ELSE @]
     IN Becomes([connect(w1, "timer") EXCEPT !.obs.scn = 0])
  /\ UNCHANGED fetches

(***************************************************************************)
(* Dashboard: mount (both effects, in order), unmount, reconnect button.   *)
(***************************************************************************)
\* The synchronous part of loadConversationHistory, up to the request.
loadConversationHistoryStart(w) ==
  [w EXCEPT !.dash.isLoading = TRUE]

\* useEffect 82-102: the session-restore effect.
restoreEffect(w) ==
  LET w1 == [w EXCEPT !.dash.isRestoringSession = TRUE]
      savedConversationId == restoreCurrentConversationId(w1)
  IN IF savedConversationId # Null
       THEN loadConversationHistoryStart(
              [w1 EXCEPT !.dash.conversationId = savedConversationId])
       ELSE [w1 EXCEPT !.dash.isRestoringSession = FALSE]

\* useEffect 151-486: the WebSocket effect.  conversationId is the value of
\* the render the effect belongs to, which the handlers it registers keep.
wsEffect(w, renderedConversationId) ==
  LET w1 == createWebSocketService(w, w.auth.token)
      w2 == IF renderedConversationId # Null
              THEN setConversationId(w1, renderedConversationId)
              ELSE w1
      w3 == [w2 EXCEPT !.dash.mounted = TRUE,
                       !.dash.closureConversationId = renderedConversationId]
  IN connect(w3, "dash")

Mount ==
  /\ ~dash.mounted
  /\ auth.token # Null
  /\ CanConnect(World)
  /\ LET rendered == DashInit.conversationId
         w1 == restoreEffect([World EXCEPT !.dash = DashInit])
     IN /\ Becomes([wsEffect(w1, rendered) EXCEPT
                       !.obs.exch = "none", !.obs.base = <<>>, !.obs.scn = 0])
        /\ fetches' = IF w1.dash.isRestoringSession
                        THEN {[conversationId |-> w1.dash.conversationId,
                               origin |-> "restore"]}
                        ELSE {}

\* The effect's cleanup removes the handlers; the component state is gone,
\* and so is every continuation that would have written it.
Unmount ==
  /\ dash.mounted
  /\ Becomes([World EXCEPT
                !.dash = DashInit,
                !.socks = [i \in 1..MaxSockets |-> [@[i] EXCEPT !.prom = "none"]],
                !.obs.exch = "none", !.obs.base = <<>>, !.obs.scn = 0])
  /\ fetches' = {}

\* handleLogout: clearAll(), then logout() empties the auth slice and the
\* route guard takes the dashboard away (its effect's cleanup runs).
Logout ==
  /\ dash.mounted
  /\ Becomes([World EXCEPT
                !.ls = Null,
                !.auth.token = Null,
                !.dash = DashInit,
                !.socks = [i \in 1..MaxSockets |-> [@[i] EXCEPT !.prom = "none"]],
                !.obs.exch = "none", !.obs.base = <<>>, !.obs.scn = 0])
  /\ fetches' = {}

\* login.fulfilled: the auth slice takes the credential of the new login.
Tokens == {"t1", "t2"}

Login(token) ==
  /\ auth.token = Null
  /\ Becomes([World EXCEPT !.auth.token = token, !.obs.scn = 0])
  /\ UNCHANGED fetches

\* A caller of disconnect(): useWebSocket().disconnect.
Disconnect ==
  /\ wsService.created
  /\ Becomes([disconnect(World) EXCEPT
                !.obs.exch = "none", !.obs.base = <<>>, !.obs.scn = 0])
  /\ UNCHANGED fetches

\* The onClick of the reconnect button (Dashboard.tsx 680-708).
ReconnectButton ==
  /\ dash.mounted
  /\ dash.wsStatus # "connected"
  /\ CanConnect(World)
  /\ LET w1 == createWebSocketService(World, auth.token)
         w2 == IF dash.conversationId # Null
                 THEN setConversationId(w1, dash.conversationId)
                 ELSE w1
     IN Becomes([connect(w2, "button") EXCEPT !.obs.scn = 0])
  /\ UNCHANGED fetches

(***************************************************************************)
(* Inputs: the frames the remote side sends, the texts the user types and  *)
(* the answers of the history endpoint.                                    *)
(***************************************************************************)
Body(conv, agent, side, raw, fin, err, hasMessages, ms) ==
  [is_object |-> TRUE, type |-> "", conversation_id |-> conv,
   current_agent |-> agent, raw_response |-> raw, is_finished |-> fin,
   is_error |-> err, error_message |-> IF err THEN "boom" ELSE "",
   has_messages |-> hasMessages, messages |-> ms,
   events |-> side, agents |-> side, guardrails |-> side, context |-> side,
   has_final_response |-> FALSE, final_response |-> Null]

AiHi == [content |-> "Hi", agent |-> "A"]
UserHello == [content |-> "hello", agent |-> "user"]

MessageLists == {<<>>, <<AiHi>>, <<UserHello, AiHi>>}

Metas == {<<"", "none">>, <<"A", "s1">>}

\* Partial and error payloads, terminal payloads with and without final
\* messages, over the conversation identifiers convs and the texts raws.
Bodies(convs, metas, raws, lists) ==
  {Body(conv, meta[1], meta[2], raw, FALSE, err, FALSE, <<>>) :
     conv \in convs, meta \in metas, raw \in raws, err \in BOOLEAN}
  \cup
  {Body(conv, meta[1], meta[2], raw, TRUE, FALSE, FALSE, <<>>) :
     conv \in convs, meta \in metas, raw \in raws}
  \cup
  {Body(conv, meta[1], meta[2], raw, TRUE, FALSE, TRUE, ms) :
     conv \in convs, meta \in metas, raw \in raws \ {""}, ms \in lists}
  \cup
  {Body(conv, meta[1], meta[2], "", TRUE, TRUE, hasMessages, <<AiHi>>) :
     conv \in convs, meta \in metas, hasMessages \in BOOLEAN}

NotObject == [Body(Null, "", "none", "", FALSE, FALSE, FALSE, <<>>)
                EXCEPT !.is_object = FALSE]

\* Frames of the shapes the handler tells apart besides the plain bodies:
\* a non-object payload, a 'completion' payload, a wrapped final response.
SpecialFrames ==
  {NotObject,
   [Body("c1", "A", "s1", "Hi", FALSE, FALSE, TRUE, <<AiHi>>)
      EXCEPT !.type = "completion"],
   [Body(Null, "", "none", "", TRUE, FALSE, FALSE, <<>>)
      EXCEPT !.has_final_response = TRUE,
             !.final_response =
                Body("c2", "A", "s1", "Hi", TRUE, FALSE, TRUE, <<AiHi>>)]}

\* The frames of the stream specification: every shape, one identifier.
StreamFrames == Bodies({Null, "c1"}, Metas, {"", "Hi"}, MessageLists) \cup SpecialFrames
ChatResponses == {b \in StreamFrames : b.is_object /\ b.is_finished /\ b.current_agent = ""}

\* The frames of the session specification: every identifier, no error.
SessionFrames ==
  {b \in Bodies({Null} \cup ConvIds, {<<"", "none">>}, {"Hi"}, {<<AiHi>>}) :
     ~b.is_error}

\* The frames of the scenario: cumulative partial texts and final messages.
AiHello == [content |-> "Hello!", agent |-> "A"]

ScenarioFrames ==
  {b \in Bodies({Null, "c1"}, Metas, {"", "H", "He", "Hello!"}, {<<AiHello>>}) :
     ~b.is_error}

InputTexts == {"hello", " hello ", " "}

HumanOld == [content |-> "old question", sender_type |-> "human",
             sender_id |-> "", created_at |-> 1]
AiOld == [content |-> "old answer", sender_type |-> "ai",
          sender_id |-> "A", created_at |-> MaxHistoryTime]

HistoryResponses ==
  {[success |-> FALSE, data |-> <<>>],
   [success |-> TRUE, data |-> <<>>],
   [success |-> TRUE, data |-> <<AiOld, HumanOld>>]}

(***************************************************************************)
(* Observers of the exchanges (history variables of the claims).           *)
(*   exch: "open" from a submission while only partial frames followed it, *)
(*         "closed" from its terminal frame to the next submission;        *)
(*   base: the committed list right after that submission;                 *)
(*   sinceNew: "new conversation" was selected and no identifier has been  *)
(*         assigned or selected since.                                     *)
(***************************************************************************)
IsPartial(content) ==
  content.is_object /\ ~IsTerminal(content) /\ ~content.is_error

\* The response a terminal payload hands to handleChatResponse.
FinalOf(content) ==
  IF content.has_final_response THEN content.final_response ELSE content

IsPlainTerminal(content) ==
  content.is_object /\ IsTerminal(content) /\ ~FinalOf(content).is_error

\* scn: how far the behaviour has followed the scenario "submit 'hello'
\* with no known conversation id; partial frames 'H', 'He', 'Hello!';
\* terminal frame with conversation id c1 and final message 'Hello!' of A".
ScenarioStart(w, inputText) ==
  /\ trim(inputText) = "hello"
  /\ w.dash.conversationId = Null
  /\ w.svc.conversationId = Null
  /\ w.ls = Null
  /\ w.dash.messages = <<>>
  /\ IsOpen(w)

ScenarioTexts == <<"H", "He", "Hello!">>

ScenarioFrame(k, content) ==
  IF k \in 1..Len(ScenarioTexts)
    THEN IsPartial(content) /\ content.raw_response = ScenarioTexts[k]
           /\ content.conversation_id = Null
  ELSE IF k = Len(ScenarioTexts) + 1
    THEN IsPlainTerminal(content) /\ ~content.has_final_response
           /\ content.conversation_id = "c1"
           /\ content.has_messages /\ content.messages = <<AiHello>>
  ELSE FALSE

\* The submission, the partial frames and the terminal frame.
ScenarioDone == Len(ScenarioTexts) + 2

ObserveFrame(w, before, content, terminal, partial) ==
  LET exch == IF terminal
                THEN (IF before.obs.exch = "none" THEN "none" ELSE "closed")
              ELSE IF partial \/ w.dash = before.dash THEN before.obs.exch
              ELSE "none"
  IN [w EXCEPT
        !.obs.exch = exch,
        !.obs.base = IF exch = "open" THEN @ ELSE <<>>,
        !.obs.scn = IF ScenarioFrame(@, content) THEN @ + 1 ELSE 0,
        !.obs.sinceNew = @ /\ w.dash.conversationId = before.dash.conversationId
                           /\ w.svc.conversationId = before.svc.conversationId]

(***************************************************************************)
(* Inbound frames (ws.onmessage -> handleMessage -> emit -> handlers).      *)
(***************************************************************************)
SomeSocketOpen == \E i \in 1..MaxSockets : sockets[i].rs = "OPEN"

\* 'ai_response', 'ai_thinking' and 'ai_finished' all reach
\* handleStreamingResponse.
StreamFrame(content) ==
  /\ dash.mounted
  /\ SomeSocketOpen
  /\ Len(handleStreamingResponse(World, content).dash.messages) <= MaxMsgs
  /\ Becomes(ObserveFrame(handleStreamingResponse(World, content), World,
                          content, IsPlainTerminal(content), IsPartial(content)))
  /\ UNCHANGED fetches

ChatResponseFrame(response) ==
  /\ dash.mounted
  /\ SomeSocketOpen
  /\ Len(handleChatResponse(World, response).dash.messages) <= MaxMsgs
  /\ Becomes([ObserveFrame(handleChatResponse(World, response), World,
                           response, ~response.is_error, FALSE)
                EXCEPT !.obs.scn = 0])
  /\ UNCHANGED fetches

\* The acknowledgment of a switch_conversation frame.
ConversationSwitched(conversationId) ==
  /\ dash.mounted
  /\ SomeSocketOpen
  /\ conversationId \in acks
  /\ LET w1 == handleConversationSwitched(
                 [World EXCEPT !.acks = @ \ {conversationId}],
                 [conversation_id |-> conversationId])
     IN Becomes([w1 EXCEPT !.obs.sinceNew = FALSE, !.obs.scn = 0])
  /\ UNCHANGED fetches

\* handleMessage for the control frames: 'connect' and 'connected' are
\* published as 'connected', 'error' and 'auth_error' under their own name.
ControlTypes == {"connect", "connected", "error", "auth_error"}

handleMessage(w, type) ==
  CASE type \in {"connect", "connected"} -> emit(w, "connected")
    [] type = "error" -> emit(w, "error")
    [] type = "auth_error" -> emit(w, "auth_error")
    [] OTHER -> w

ControlFrame(type) ==
  /\ dash.mounted
  /\ SomeSocketOpen
  /\ Becomes([handleMessage(World, type) EXCEPT !.obs.scn = 0])
  /\ UNCHANGED fetches

(***************************************************************************)
(* The user's operations.                                                  *)
(***************************************************************************)
SendMessage(inputText) ==
  /\ dash.mounted
  /\ Len(dash.messages) < MaxMsgs
  /\ LET w1 == handleSend(World, inputText)
     IN Becomes(IF w1.dash.messages = dash.messages THEN w1
                ELSE [w1 EXCEPT !.obs.exch = "open",
                                !.obs.base = w1.dash.messages,
                                !.obs.scn = IF ScenarioStart(World, inputText)
                                              THEN 1 ELSE 0])
  /\ UNCHANGED fetches

SelectNew ==
  /\ dash.mounted
  /\ Becomes([selectNewConversation(World) EXCEPT
                !.obs.exch = "none", !.obs.base = <<>>, !.obs.scn = 0,
                !.obs.sinceNew = TRUE])
  /\ UNCHANGED fetches

SelectConversation(selectedConversationId) ==
  /\ dash.mounted
  /\ Cardinality(fetches) < MaxFetches
  /\ Becomes([selectConversation(World, selectedConversationId) EXCEPT
                !.obs.exch = "none", !.obs.base = <<>>, !.obs.scn = 0,
                !.obs.sinceNew = FALSE])
  /\ fetches' = fetches \cup {[conversationId |-> selectedConversationId,
                               origin |-> "select"]}

HistoryResponse(request, response) ==
  /\ request \in fetches
  /\ LET w1 == IF request.origin = "restore"
                 THEN loadConversationHistoryDone(World, response)
                 ELSE selectConversationDone(World, response)
     IN Becomes([w1 EXCEPT !.obs.exch = "none", !.obs.base = <<>>, !.obs.scn = 0])
  /\ fetches' = fetches \ {request}

(***************************************************************************)
(* The specification.                                                      *)
(***************************************************************************)
Init ==
  /\ wsService = NoService
  /\ sockets = [i \in 1..MaxSockets |-> FreeSocket]
  /\ timers = 0
  /\ dash = DashInit
  /\ localStorage \in {Null, "c1"}
  /\ fetches = {}
  /\ acks = {}
  /\ auth = [token |-> "t1"]
  /\ obs = ObsInit

\* The connection supervisor under every close code, failure and retry.
NextConn ==
  \/ \E i \in 1..MaxSockets : SocketOpen(i)
  \/ \E i \in 1..MaxSockets, code \in CloseCodes : SocketClose(i, code)
  \/ \E i \in 1..MaxSockets : SocketError(i)
  \/ TimerFire
  \/ Mount
  \/ Unmount
  \/ ReconnectButton

SpecConn == Init /\ [][NextConn]_vars

\* The connection supervisor with local disconnects.
NextLocal ==
  \/ NextConn
  \/ Disconnect

SpecLocal == Init /\ [][NextLocal]_vars

\* The session: conversation identifiers, selection and history, over a
\* connection the remote side closes cleanly or for authentication.
SessionCloseCodes == {1000, 4001}

Next ==
  \/ Mount
  \/ ReconnectButton
  \/ \E i \in 1..MaxSockets : SocketOpen(i)
  \/ \E i \in 1..MaxSockets, code \in SessionCloseCodes : SocketClose(i, code)
  \/ \E content \in SessionFrames : StreamFrame(content)
  \/ \E conversationId \in ConvIds : ConversationSwitched(conversationId)
  \/ \E inputText \in InputTexts : SendMessage(inputText)
  \/ SelectNew
  \/ \E selected \in ConvIds : SelectConversation(selected)
  \/ \E request \in fetches, response \in HistoryResponses :
        HistoryResponse(request, response)

Spec == Init /\ [][Next]_vars

\* Conversation selection over the connection the mount opens.
NextSwitch ==
  \/ Mount
  \/ \E i \in 1..MaxSockets : SocketOpen(i)
  \/ \E content \in SessionFrames : StreamFrame(content)
  \/ \E conversationId \in ConvIds : ConversationSwitched(conversationId)
  \/ \E inputText \in InputTexts : SendMessage(inputText)
  \/ SelectNew
  \/ \E selected \in ConvIds : SelectConversation(selected)
  \/ \E request \in fetches, response \in HistoryResponses :
        HistoryResponse(request, response)

SpecSwitch == Init /\ [][NextSwitch]_vars

\* The stream accumulator: response frames of every shape and submissions,
\* over the connection the mount opens.
NextStream ==
  \/ Mount
  \/ \E i \in 1..MaxSockets : SocketOpen(i)
  \/ \E content \in StreamFrames : StreamFrame(content)
  \/ \E response \in ChatResponses : ChatResponseFrame(response)
  \/ \E inputText \in InputTexts : SendMessage(inputText)
  \/ SelectNew
  \/ \E request \in fetches, response \in HistoryResponses :
        HistoryResponse(request, response)

SpecStream == Init /\ [][NextStream]_vars

\* The scenario's frames and submissions, over the connection the mount
\* opens.
NextScenario ==
  \/ Mount
  \/ \E i \in 1..MaxSockets : SocketOpen(i)
  \/ \E content \in ScenarioFrames : StreamFrame(content)
  \/ \E inputText \in InputTexts : SendMessage(inputText)
  \/ SelectNew

SpecScenario == Init /\ [][NextScenario]_vars

\* An exchange the remote side never finishes: submissions and partial
\* frames only, over a connection that may fail and be retried.  A timer
\* that was set fires.
PartialFrames == {b \in StreamFrames : IsPartial(b)}

NextAbandon ==
  \/ Mount
  \/ \E i \in 1..MaxSockets : SocketOpen(i)
  \/ \E i \in 1..MaxSockets : SocketClose(i, 1006)
  \/ \E i \in 1..MaxSockets : SocketError(i)
  \/ TimerFire
  \/ \E content \in PartialFrames : StreamFrame(content)
  \/ \E inputText \in InputTexts : SendMessage(inputText)
  \/ \E request \in fetches, response \in HistoryResponses :
        HistoryResponse(request, response)

SpecAbandon == Init /\ [][NextAbandon]_vars /\ WF_vars(TimerFire)

\* Control frames of the remote side during exchanges, over a connection
\* the remote side may close cleanly.
NextControl ==
  \/ Mount
  \/ \E i \in 1..MaxSockets : SocketOpen(i)
  \/ \E i \in 1..MaxSockets : SocketClose(i, 1000)
  \/ \E type \in ControlTypes : ControlFrame(type)
  \/ \E content \in PartialFrames : StreamFrame(content)
  \/ \E inputText \in InputTexts : SendMessage(inputText)

SpecControl == Init /\ [][NextControl]_vars

\* Logins and logouts of one user, over a connection the remote side may
\* close cleanly or for authentication.
NextAuth ==
  \/ Mount
  \/ Logout
  \/ \E token \in Tokens : Login(token)
  \/ ReconnectButton
  \/ \E i \in 1..MaxSockets : SocketOpen(i)
  \/ \E i \in 1..MaxSockets, code \in SessionCloseCodes : SocketClose(i, code)

SpecAuth == Init /\ [][NextAuth]_vars

(***************************************************************************)
(* The App page: main.tsx creates the global service and connects, the     *)
(* App component subscribes to 'status' and 'ai_response'.                 *)
(***************************************************************************)
AppNoAgent == [content |-> "Hi", agent |-> Null]

\* Frames with an absent (null), empty, plain and padded partial text, with
\* final messages that pass and that fail the filter.
AppFrames ==
  {b \in Bodies({"c1"}, {<<"A", "s1">>}, {Null, "", "Hi", "Hi "},
                {<<AiHi>>, <<AppNoAgent>>}) : ~b.is_error}
  \cup SpecialFrames

AppInputTexts == {"hello", " "}

IsAppTerminal(content) == content.is_object /\ FinalOf(content).is_finished

\* main.tsx: createWebSocketService(...).connect(); then the App effect:
\* the subscriptions and handleStatus(wsService.status).
AppStart ==
  /\ ~dash.mounted
  /\ ~wsService.created
  /\ LET w1 == connect(createWebSocketService([World EXCEPT !.dash = AppInit],
                                              Null), "main")
         w2 == [w1 EXCEPT !.dash.mounted = TRUE]
     IN Becomes(handleStatus(w2, w2.svc.status))
  /\ UNCHANGED fetches

\* 'ai_response' frames reach App's handleStreamingResponse.
AppStreamFrame(content) ==
  /\ dash.mounted
  /\ SomeSocketOpen
  /\ LET w1 == App_handleStreamingResponse(World, content)
     IN /\ Len(w1.dash.messages) <= MaxAppMsgs
        /\ Len(w1.dash.sideChannel.events) <= MaxAppEvents
        /\ Becomes([w1 EXCEPT !.obs.exch =
                                 IF IsAppTerminal(content) /\ @ # "none"
                                   THEN "closed" ELSE @])
  /\ UNCHANGED fetches

\* Chat.handleSend in front of App's handleSendMessage.
AppSendMessage(inputText) ==
  /\ dash.mounted
  /\ LET w1 == IF trim(inputText) = "" \/ dash.wsStatus # "connected"
                 THEN World
                 ELSE App_handleSendMessage(World, inputText)
     IN /\ Len(w1.dash.messages) <= MaxAppMsgs
        /\ Becomes(IF w1.dash.messages = dash.messages THEN w1
                   ELSE [w1 EXCEPT !.obs.exch = "open",
                                   !.obs.base = w1.dash.messages])
  /\ UNCHANGED fetches

NextApp ==
  \/ AppStart
  \/ \E i \in 1..MaxSockets : SocketOpen(i)
  \/ \E content \in AppFrames : AppStreamFrame(content)
  \/ \E inputText \in AppInputTexts : AppSendMessage(inputText)

SpecApp == Init /\ [][NextApp]_vars

(***************************************************************************)
(* Claims.                                                                 *)
(***************************************************************************)

\* C1: a close with a code in {1008, 1011, 4001, 4003} schedules no
\* reconnect timer (the timer, its handle and the attempt counter are left
\* as they were), whatever the attempt counter and the state before it.
C1_TerminalCloseSchedulesNothing ==
  obs.lastClose.code \in AuthCodes => ~obs.lastClose.scheduled

\* C1 witness: an authentication close handled while the attempt counter is
\* not zero and a retry is pending.
C1_Witness ==
  /\ obs.lastClose.code = 1008
  /\ wsService.reconnectAttempts > 0
  /\ timers > 0

\* C2 (as claimed): for a close with a code in {1008, 1011, 4001, 4003} the
\* 'auth_error' event reaches the subscribed dashboard exactly once.
C2_AuthErrorDeliveredOnce ==
  (obs.lastClose.code \in AuthCodes /\ dash.mounted)
    => obs.lastClose.delivered = 1

\* C3 (as claimed): counted from the last open, the Nth scheduled retry,
\* N = 0, 1, 2, ..., waits min(base * 2^N, cap).
C3_DelayFromZero ==
  \A n \in 1..Len(obs.delays) :
    obs.delays[n] = Min(BaseDelay * 2^(n - 1), CapDelay)

\* C3 (amended): counted from the last open, the Nth scheduled retry,
\* N = 1, 2, ..., up to the ceiling, waits min(base * 2^N, cap).
C3_DelayFromOne ==
  \A n \in 1..Len(obs.delays) :
    obs.delays[n] = Min(BaseDelay * 2^n, CapDelay)

\* C3 witness: five consecutive retries, the last one at the cap.
C3_Witness ==
  /\ Len(obs.delays) = maxReconnectAttempts
  /\ obs.delays[1] = 2 * BaseDelay
  /\ obs.delays[maxReconnectAttempts] = CapDelay

\* The messages a terminal payload describes: the assistant messages among
\* its final messages (the submitted user message is already committed).
Described(content) ==
  LET r == FinalOf(content)
  IN IF r.has_messages THEN filterAi(mapResponseMessages(r.messages)) ELSE <<>>

IsPrefix(a, b) == Len(a) <= Len(b) /\ SubSeq(b, 1, Len(a)) = a

\* C4 (as claimed): after a submission followed by partial frames only, the
\* terminal frame leaves the committed list equal to the list before the
\* response plus exactly the messages the frame describes.
C4_TerminalCommitsExactly ==
  [][\A content \in StreamFrames :
       (obs.exch = "open" /\ IsPlainTerminal(content) /\ StreamFrame(content))
         => dash'.messages = obs.base \o Described(content)]_vars

\* C5 (as claimed): a partial frame handled after the terminal frame of the
\* exchange, and before the next submission, changes nothing the dashboard
\* shows or stores.
C5_LatePartialDropped ==
  [][\A content \in StreamFrames :
       (obs.exch = "closed" /\ IsPartial(content) /\ StreamFrame(content))
         => UNCHANGED <<dash, wsService, localStorage>>]_vars

\* C6 (as claimed): while a conversation identifier is known, no response
\* frame carrying a different identifier changes the active identifier, the
\* service's or the persisted one.
C6_KnownIdNotOverwritten ==
  [][\A content \in SessionFrames :
       (/\ dash.conversationId # Null
        /\ content.conversation_id \notin {Null, dash.conversationId}
        /\ StreamFrame(content))
         => /\ dash'.conversationId = dash.conversationId
            /\ wsService'.conversationId = wsService.conversationId
            /\ localStorage' = localStorage]_vars

\* C7 (as claimed): a start from cold state with X persisted makes X the
\* active identifier, stages X in the service so that the connect address
\* carries it, and issues exactly one history fetch, for X.
C7_ColdStartRestores ==
  [][(~wsService.created /\ localStorage # Null /\ Mount)
       => /\ dash'.conversationId = localStorage
          /\ wsService'.conversationId = localStorage
          /\ obs'.urlConversationId = localStorage
          /\ fetches' = {[conversationId |-> localStorage,
                          origin |-> "restore"]}]_vars

C9_Scenario ==
  obs.scn = ScenarioDone =>
    /\ dash.messages = <<Message("hello", "user", "user"),
                         Message("Hello!", "ai", "A")>>
    /\ dash.conversationId = "c1"
    /\ wsService.conversationId = "c1"
    /\ localStorage = "c1"
    /\ dash.streamingResponse = ""
    /\ ~dash.isLoading

\* C9 witness: the scenario has run to its terminal frame.
C9_Witness == obs.scn = ScenarioDone

\* C10 (as claimed): handling a response frame never removes or replaces a
\* committed message: the list before is a prefix of the list after.
C10_FramesAppendOnly ==
  [][((\E content \in StreamFrames : StreamFrame(content))
        \/ (\E response \in ChatResponses : ChatResponseFrame(response)))
       => IsPrefix(dash.messages, dash'.messages)]_vars

\* C11 (as claimed): when a close finds the attempt ceiling reached, with no
\* open since, no reconnect is scheduled and, while no connect() has been
\* called since, the connection status is 'error'.
C11_CeilingStaysError ==
  (/\ obs.lastClose.code \notin (AuthCodes \cup {0, 1000})
   /\ wsService.reconnectAttempts = maxReconnectAttempts
   /\ ~obs.lastClose.scheduled
   /\ \A i \in 1..MaxSockets : sockets[i].rs = "CLOSED")
    => /\ timers = 0
       /\ wsService.status = "error"

\* C12: a close with code 1000 schedules no reconnect; a close with a code
\* other than 1000, 1008, 1011, 4001 and 4003 schedules one unless it finds
\* the attempt ceiling reached (the counter then stays at the ceiling).
C12_CleanNeverRetryableAlways ==
  /\ obs.lastClose.code = 1000 => ~obs.lastClose.scheduled
  /\ obs.lastClose.code \notin (AuthCodes \cup {0, 1000})
       => \/ obs.lastClose.scheduled
          \/ wsService.reconnectAttempts = maxReconnectAttempts

\* C12 witness: a retryable close has scheduled the last retry the ceiling
\* allows.
C12_Witness ==
  /\ obs.lastClose.code = 1001
  /\ obs.lastClose.scheduled
  /\ wsService.reconnectAttempts = maxReconnectAttempts
  /\ timers = 1

\* C13 (as claimed): from disconnect() until the next connect() (the
\* service then holds no socket) no reconnect timer is pending, so none is
\* scheduled and none fires.
C13_NoRetryAfterDisconnect ==
  (wsService.created /\ wsService.ws = 0) => timers = 0

\* C14: at most one reconnect timer is pending at any time, and the handle
\* the service holds is that timer's.
C14_AtMostOneTimer ==
  /\ timers <= 1
  /\ timers = 1 => wsService.reconnectTimer = "live"

\* C14 witness: a close has scheduled a retry while the timer of an earlier
\* one was still pending, and one timer is pending after it.
C14_Witness ==
  /\ obs.lastClose.scheduled
  /\ obs.lastClose.cancelled
  /\ timers = 1

\* C15 (as claimed): a connect() started by the reconnect button while a
\* reconnect timer is pending cancels that timer, so the timer's callback
\* starts no second attempt.
C15_ManualConnectCancelsRetry ==
  [][(ReconnectButton /\ timers > 0 /\ ~IsOpen(World)) => timers' = 0]_vars

\* C16 (as claimed): a submission whose terminal or error frame never
\* arrives does not stay pending forever: the loading flag is eventually
\* cleared (by the flush of the abandoned exchange).
C16_AbandonedExchangeFlushed ==
  (dash.isLoading /\ obs.exch = "open") ~> ~dash.isLoading

\* C17 (as claimed): a terminal frame without error clears the streaming
\* text and commits: when it carries final messages of the assistant after
\* a submission, one message per entry; when it carries none and its
\* partial text is not empty, that text as a single assistant message.
C17_TerminalCommitsTextOrMessages ==
  [][\A content \in StreamFrames :
       (IsPlainTerminal(content) /\ StreamFrame(content))
         => LET r == FinalOf(content)
            IN /\ dash'.streamingResponse = ""
               /\ (r.has_messages /\ obs.exch = "open"
                     /\ filterAi(mapResponseMessages(r.messages))
                          = mapResponseMessages(r.messages)
                     /\ r.messages # <<>>)
                    => dash'.messages
                         = dash.messages \o mapResponseMessages(r.messages)
               /\ (~r.has_messages /\ r.raw_response # "")
                    => /\ Len(dash'.messages) = Len(dash.messages) + 1
                       /\ IsPrefix(dash.messages, dash'.messages)
                       /\ dash'.messages[Len(dash'.messages)].type = "ai"
                       /\ dash'.messages[Len(dash'.messages)].content
                            = r.raw_response]_vars

\* C18 (as claimed): a response frame with is_error set, finished or not,
\* appends exactly one error message, clears the pending exchange and
\* applies nothing else of the frame: the conversation identifier (active,
\* the service's, persisted), the current responder and the side-channel
\* snapshots stay as they were.
C18_ErrorFrameAppliesNothingElse ==
  [][\A content \in StreamFrames :
       (content.is_object /\ content.is_error /\ StreamFrame(content))
         => /\ dash'.messages = Append(dash.messages, errorMessage(content))
            /\ dash'.streamingResponse = ""
            /\ ~dash'.isLoading
            /\ dash'.conversationId = dash.conversationId
            /\ wsService'.conversationId = wsService.conversationId
            /\ localStorage' = localStorage
            /\ dash'.currentAgent = dash.currentAgent
            /\ dash'.sideChannel = dash.sideChannel]_vars

\* C19 (as claimed): a partial frame without error sets the streaming text
\* to the frame's partial text and leaves the committed list unchanged.
C19_PartialReplacesText ==
  [][\A content \in ScenarioFrames :
       (IsPartial(content) /\ StreamFrame(content))
         => /\ dash'.streamingResponse = content.raw_response
            /\ dash'.messages = dash.messages]_vars

\* C19 (amended): a partial frame without error whose partial text is not
\* empty sets the streaming text to that text (it does not append); one
\* whose partial text is empty leaves the streaming text as it was; both
\* leave the committed list unchanged.
C19_PartialReplacesNonEmptyText ==
  [][\A content \in ScenarioFrames :
       (IsPartial(content) /\ StreamFrame(content))
         => /\ dash'.streamingResponse =
                 IF content.raw_response # "" THEN content.raw_response
                 ELSE dash.streamingResponse
            /\ dash'.messages = dash.messages]_vars

\* C19 witness: after the submission the partial frame "He" has followed
\* the partial frame "H", and the streaming text is "He".
C19_Witness ==
  /\ obs.scn = Len(ScenarioTexts)
  /\ dash.streamingResponse = ScenarioTexts[Len(ScenarioTexts) - 1]
  /\ dash.messages = <<Message("hello", "user", "user")>>

\* C20 (as claimed): selecting an existing conversation while the
\* connection is open sends a switch_conversation frame and issues no
\* history fetch yet; the conversation_switched acknowledgment issues the
\* fetch for the conversation it names.
C20_FetchAfterAcknowledgment ==
  [][/\ \A selected \in ConvIds :
          (SelectConversation(selected) /\ IsOpen(World)
             /\ wsService.status = "connected")
            => /\ obs'.sent.type = "switch_conversation"
               /\ obs'.sent.content = selected
               /\ fetches' = fetches
     /\ \A conversationId \in ConvIds :
          ConversationSwitched(conversationId)
            => \E f \in fetches' \ fetches :
                 f.conversationId = conversationId]_vars

\* C21 (as claimed): when the history fetch of the active conversation
\* fails, whether restoration or selection started it, the active
\* identifier is cleared and removed from storage, and the connection is
\* left as it was.
C21_HistoryFailureClears ==
  [][\A request \in fetches, response \in HistoryResponses :
       (/\ ~response.success
        /\ request.conversationId = dash.conversationId
        /\ HistoryResponse(request, response))
         => /\ dash'.conversationId = Null
            /\ localStorage' = Null
            /\ sockets' = sockets
            /\ wsService'.ws = wsService.ws]_vars

C23_SubmitFlushesPartialText ==
  [][\A inputText \in InputTexts :
       (/\ dash.streamingResponse # ""
        /\ trim(inputText) # ""
        /\ dash.wsStatus = "connected"
        /\ SendMessage(inputText))
         => /\ Len(dash'.messages) = Len(dash.messages) + 2
            /\ IsPrefix(dash.messages, dash'.messages)
            /\ dash'.messages[Len(dash.messages) + 1].type = "ai"
            /\ dash'.messages[Len(dash.messages) + 1].content
                 = dash.streamingResponse
            /\ dash'.messages[Len(dash.messages) + 2]
                 = Message(trim(inputText), "user", "user")
            /\ dash'.streamingResponse = ""]_vars

\* C24: right after a finished response is handled by the App page, no
\* message flushed on submit is left in the committed list with the exact
\* text of a final message the response committed: the final messages end
\* the list, and every flushed message with such a text has been removed.
C24_FlushedNotDuplicated ==
  [][\A content \in AppFrames :
       (IsAppTerminal(content) /\ AppStreamFrame(content))
         => LET final == App_finalMessages(FinalOf(content))
                kept == Len(dash'.messages) - Len(final)
            IN final # <<>> =>
                 /\ kept >= 0
                 /\ SubSeq(dash'.messages, kept + 1, Len(dash'.messages)) = final
                 /\ \A k \in 1..kept :
                      dash'.messages[k].id = "streaming" =>
                        \A j \in 1..Len(final) :
                          final[j].content # dash'.messages[k].content]_vars

\* C24 witness: the partial text "Hi" was flushed by a second submission,
\* the finished response then committed the final message "Hi", and no
\* flushed message is left.
C24_Witness ==
  /\ obs.exch = "closed"
  /\ \E k \in 1..Len(obs.base) :
        obs.base[k].id = "streaming" /\ obs.base[k].content = "Hi"
  /\ Len(dash.messages) = Len(obs.base)
  /\ \A k \in 1..Len(dash.messages) : dash.messages[k].id # "streaming"
  /\ dash.messages[Len(dash.messages)].content = "Hi"

\* C25 (as claimed): after every completed operation the conversation
\* identifier held by the service (stamped on chat frames, attached to the
\* connect address) is the dashboard's active conversation identifier.
C25_ServiceIdFollowsActive ==
  (dash.mounted /\ wsService.created)
    => wsService.conversationId = dash.conversationId

\* C26 (as claimed): a history response for a conversation that is no
\* longer the active one changes neither the committed messages nor the
\* active and persisted identifiers.
C26_StaleHistoryIgnored ==
  [][\A request \in fetches, response \in HistoryResponses :
       (/\ request.conversationId # dash.conversationId
        /\ HistoryResponse(request, response))
         => /\ dash'.messages = dash.messages
            /\ dash'.conversationId = dash.conversationId
            /\ localStorage' = localStorage]_vars

\* C27 (as claimed): at most one socket whose handlers drive the service
\* exists at any time (a socket keeps its handlers until its close event).
C27_OneLiveSocket ==
  Cardinality({i \in 1..MaxSockets : sockets[i].rs # "CLOSED"}) <= 1

\* C28 (as claimed): the status is 'connected' whenever the service's
\* current socket is open, and no reconnect is pending then: the events of
\* a superseded or locally closed socket do not touch either.
C28_OpenMeansConnected ==
  IsOpen(World) => /\ wsService.status = "connected"
                   /\ timers = 0

\* C29 (as claimed): the connection state the dashboard observes (wsStatus)
\* is the service's status at all times; inbound control frames do not
\* change it.
C29_ObservedStatusIsServiceStatus ==
  dash.mounted => dash.wsStatus = wsService.status

\* C30 (as claimed): every connect started by the dashboard's effect or by
\* the reconnect button attaches the user's current credential to the
\* connect address.
C30_ConnectUsesCurrentCredential ==
  [][((Mount \/ ReconnectButton) /\ ~IsOpen(World))
       => obs'.urlToken = auth.token]_vars

=============================================================================
